---------------------------- MODULE Spec2Model ----------------------------
(***************************************************************************)
(* Model of src/file.rs of rustypaste: Directory::try_from (the scan that  *)
(* builds the index), Directory::get_file and                              *)
(* Directory::is_over_size_limit.                                          *)
(*                                                                         *)
(* The filesystem is a fixed snapshot: `listing` is what glob yields for   *)
(* the pattern top/**/* , one entry per position, with the per-file        *)
(* behaviour of the operating system (is_dir, open, metadata, read)        *)
(* attached to the entry.  Root "sub" is a subtree of "top": its           *)
(* enumeration is the listing without its first entry.                     *)
(*                                                                         *)
(* total_size is a u64 in the source; the sizes of the model are far below *)
(* 2^64, so the addition never wraps here and is modelled on naturals.     *)
(***************************************************************************)
EXTENDS Integers, Sequences, FiniteSets, TLC

\* Bounds of the model.
NumEntries == 2
MaxSize == 1

Bytes == {0, 1}
Callers == {"b1", "b2"}
MainCaller == "b1"

VARIABLES
    listing,      \* the filesystem snapshot: what glob enumerates under "top"
    pc,           \* per caller: "idle", "scanning", "done", "failed"
    root,         \* per caller: the directory argument of try_from
    idx,          \* per caller: number of items pulled from the glob iterator
    files,        \* per caller: the Vec<File> being collected
    total_size,   \* per caller: the local `total_size` accumulator
    opened,       \* per caller: paths on which OsFile::open was called (history)
    result,       \* per caller: the value returned by try_from
    lastQuery     \* the last get_file / is_over_size_limit call and its result

vars == <<listing, pc, root, idx, files, total_size, opened, result, lastQuery>>

-----------------------------------------------------------------------------
\* The filesystem

Contents == UNION {[1..n -> Bytes] : n \in 0..MaxSize}

\* One enumerated item.  kind "unreadable" is an Err(GlobError) item.
FileEntries == [kind : {"file"}, suffix : {"", "timestamp"},
                fault : {"none", "open", "metadata", "read"}, content : Contents]
OtherEntries == [kind : {"dir", "unreadable"}, suffix : {""},
                 fault : {"none"}, content : {<<>>}]
Entries == FileEntries \cup OtherEntries

Listings == UNION {[1..n -> Entries] : n \in 0..NumEntries}

\* The PathBuf of the item at position i of the listing.
PathOf(i, e) == [name |-> i, suffix |-> e.suffix]

Roots == {[dir |-> "top", text |-> "ok"], [dir |-> "sub", text |-> "ok"],
          [dir |-> "top", text |-> "not_unicode"],
          [dir |-> "top", text |-> "bad_pattern"]}
NoRoot == [dir |-> "none", text |-> "none"]

\* Path::to_str on directory.join("**").join("*"): None unless valid unicode.
to_str(r) == IF r.text = "not_unicode" THEN "None" ELSE "Some"

\* glob::glob(pattern): Err(PatternError) on a malformed pattern.
glob_new(r) == IF r.text = "bad_pattern" THEN "Err" ELSE "Ok"

EnumTop == [i \in 1..Len(listing) |-> [path |-> PathOf(i, listing[i]), e |-> listing[i]]]

\* The items the glob iterator yields for a root, in order.
Enumerate(r) ==
    IF r.dir = "sub" /\ Len(listing) > 0 THEN Tail(EnumTop)
    ELSE IF r.dir = "sub" THEN <<>> ELSE EnumTop

-----------------------------------------------------------------------------
\* util (not part of file.rs)

RECURSIVE Pow2(_)
Pow2(n) == IF n = 0 THEN 1 ELSE 2 * Pow2(n - 1)

RECURSIVE BitsValue(_)
BitsValue(c) == IF c = <<>> THEN 0 ELSE Head(c) + 2 * BitsValue(Tail(c))

\* util::sha256_digest: a collision-free digest of the whole byte content.
sha256_digest(c) == Pow2(Len(c)) + BitsValue(c)

\* util::TIMESTAMP_EXTENSION_REGEX.is_match(path.to_string_lossy())
TIMESTAMP_EXTENSION_REGEX_is_match(path) == path.suffix = "timestamp"

-----------------------------------------------------------------------------
\* Directory::try_from, one item of the iterator chain at a time

\* .filter_map(Result::ok)
GlobOk(item) == item.e.kind # "unreadable"

\* Variant: directories are not filtered out.
NotDirAlways(item) == TRUE

\* .filter(|path| !path.is_dir())
NotDir(item) == item.e.kind # "dir"

\* Variant: the failure of open is not noticed.
OpenOkAlways(item) == TRUE

\* OsFile::open(&path)
OpenOk(item) == item.e.fault # "open"

\* file.metadata().ok()?.len()
MetadataOk(item) == item.e.fault # "metadata"
MetadataLen(item) == Len(item.e.content)

\* util::sha256_digest(file) reads the file
ReadOk(item) == item.e.fault # "read"

\* The accumulated state after one item went through the chain.
ProcessItem(acc, item) ==
    IF ~GlobOk(item) \/ ~NotDir(item) THEN acc
    ELSE LET o == Append(acc.opened, item.path) IN
         IF ~OpenOk(item) \/ ~MetadataOk(item)
         THEN [acc EXCEPT !.opened = o]
         ELSE LET t == acc.total_size + MetadataLen(item) IN
              IF ~ReadOk(item)
              THEN [acc EXCEPT !.opened = o, !.total_size = t]
              ELSE [opened |-> o, total_size |-> t,
                    files |-> Append(acc.files,
                                [path |-> item.path,
                                 sha256sum |-> sha256_digest(item.e.content)])]

NoResult == [tag |-> "none", files |-> <<>>, total_size |-> 0]
ErrResult == [tag |-> "Err", files |-> <<>>, total_size |-> 0]
OkResult(f, t) == [tag |-> "Ok", files |-> f, total_size |-> t]

\* Lines 28-32: the accumulator is zeroed, the pattern is built and compiled.
Start(b, r) ==
    /\ pc[b] = "idle"
    /\ root' = [root EXCEPT ![b] = r]
    /\ total_size' = [total_size EXCEPT ![b] = 0]
    /\ IF to_str(r) = "None" \/ glob_new(r) = "Err"
       THEN /\ pc' = [pc EXCEPT ![b] = "failed"]
            /\ result' = [result EXCEPT ![b] = ErrResult]
       ELSE /\ pc' = [pc EXCEPT ![b] = "scanning"]
            /\ UNCHANGED result
    /\ UNCHANGED <<listing, idx, files, opened, lastQuery>>

\* Variant: a per-file open failure is propagated as the build's error.
ScanEntryPropagates(b) ==
    /\ pc[b] = "scanning"
    /\ idx[b] < Len(Enumerate(root[b]))
    /\ LET item == Enumerate(root[b])[idx[b] + 1]
           acc == ProcessItem([opened |-> opened[b], total_size |-> total_size[b],
                               files |-> files[b]], item)
       IN /\ idx' = [idx EXCEPT ![b] = idx[b] + 1]
          /\ files' = [files EXCEPT ![b] = acc.files]
          /\ total_size' = [total_size EXCEPT ![b] = acc.total_size]
          /\ opened' = [opened EXCEPT ![b] = acc.opened]
          /\ IF GlobOk(item) /\ NotDir(item) /\ ~OpenOk(item)
             THEN /\ pc' = [pc EXCEPT ![b] = "failed"]
                  /\ result' = [result EXCEPT ![b] = ErrResult]
             ELSE UNCHANGED <<pc, result>>
    /\ UNCHANGED <<listing, root, lastQuery>>

\* Variant: total_size is one accumulator shared by all builds.
ScanEntryShared(b) ==
    /\ pc[b] = "scanning"
    /\ idx[b] < Len(Enumerate(root[b]))
    /\ LET item == Enumerate(root[b])[idx[b] + 1]
           acc == ProcessItem([opened |-> opened[b], total_size |-> total_size[b],
                               files |-> files[b]], item)
       IN /\ idx' = [idx EXCEPT ![b] = idx[b] + 1]
          /\ files' = [files EXCEPT ![b] = acc.files]
          /\ total_size' = [c \in Callers |->
                               total_size[c] + (acc.total_size - total_size[b])]
          /\ opened' = [opened EXCEPT ![b] = acc.opened]
    /\ UNCHANGED <<listing, pc, root, result, lastQuery>>

\* Variant: an item whose open fails is put back and tried again.
ScanEntryRetry(b) ==
    /\ pc[b] = "scanning"
    /\ idx[b] < Len(Enumerate(root[b]))
    /\ LET item == Enumerate(root[b])[idx[b] + 1]
           acc == ProcessItem([opened |-> opened[b], total_size |-> total_size[b],
                               files |-> files[b]], item)
       IN IF GlobOk(item) /\ NotDir(item) /\ ~OpenOk(item)
          THEN UNCHANGED <<idx, files, total_size, opened>>
          ELSE /\ idx' = [idx EXCEPT ![b] = idx[b] + 1]
               /\ files' = [files EXCEPT ![b] = acc.files]
               /\ total_size' = [total_size EXCEPT ![b] = acc.total_size]
               /\ opened' = [opened EXCEPT ![b] = acc.opened]
    /\ UNCHANGED <<listing, pc, root, result, lastQuery>>

\* Lines 33-46: collect pulls the next item through the whole chain.
ScanEntry(b) ==
    /\ pc[b] = "scanning"
    /\ idx[b] < Len(Enumerate(root[b]))
    /\ LET item == Enumerate(root[b])[idx[b] + 1]
           acc == ProcessItem([opened |-> opened[b], total_size |-> total_size[b],
                               files |-> files[b]], item)
       IN /\ idx' = [idx EXCEPT ![b] = idx[b] + 1]
          /\ files' = [files EXCEPT ![b] = acc.files]
          /\ total_size' = [total_size EXCEPT ![b] = acc.total_size]
          /\ opened' = [opened EXCEPT ![b] = acc.opened]
    /\ UNCHANGED <<listing, pc, root, result, lastQuery>>

\* Lines 47-48: the iterator is exhausted, Ok(Self { files, total_size }).
Finish(b) ==
    /\ pc[b] = "scanning"
    /\ idx[b] = Len(Enumerate(root[b]))
    /\ pc' = [pc EXCEPT ![b] = "done"]
    /\ result' = [result EXCEPT ![b] = OkResult(files[b], total_size[b])]
    /\ UNCHANGED <<listing, root, idx, files, total_size, opened, lastQuery>>

-----------------------------------------------------------------------------
\* Directory::get_file and Directory::is_over_size_limit

RECURSIVE find(_, _)
find(fs, h) ==
    IF fs = <<>> THEN <<>>
    ELSE IF Head(fs).sha256sum = h
            /\ ~TIMESTAMP_EXTENSION_REGEX_is_match(Head(fs).path)
         THEN <<Head(fs)>>
         ELSE find(Tail(fs), h)

\* Variant: the timestamp exclusion is left out.
RECURSIVE find_any(_, _)
find_any(fs, h) ==
    IF fs = <<>> THEN <<>>
    ELSE IF Head(fs).sha256sum = h THEN <<Head(fs)>> ELSE find_any(Tail(fs), h)

get_file_no_exclusion(d, h) == find_any(d.files, h)

\* Variant: the search starts at the second record.
get_file_skip_first(d, h) == IF d.files = <<>> THEN <<>> ELSE find(Tail(d.files), h)

get_file(d, h) == find(d.files, h)

\* Variant: the boundary is included.
is_over_size_limit_ge(d, max_size) == d.total_size >= max_size

is_over_size_limit(d, max_size) == d.total_size > max_size

QueryHashes == {sha256_digest(c) : c \in Contents}
QuerySizes == 0..(NumEntries * MaxSize + 1)

NoQuery == [op |-> "none", by |-> MainCaller, hash |-> 0, max_size |-> 0,
            found |-> <<>>, over |-> FALSE]

\* Variant: the record found is taken out of the index.
GetFileTakes(b, h) ==
    /\ pc[b] = "done"
    /\ lastQuery' = [op |-> "get_file", by |-> b, hash |-> h, max_size |-> 0,
                     found |-> get_file(result[b], h), over |-> FALSE]
    /\ result' = [result EXCEPT ![b].files =
                     SelectSeq(@, LAMBDA f : <<f>> # get_file(result[b], h))]
    /\ UNCHANGED <<listing, pc, root, idx, files, total_size, opened>>

GetFile(b, h) ==
    /\ pc[b] = "done"
    /\ lastQuery' = [op |-> "get_file", by |-> b, hash |-> h, max_size |-> 0,
                     found |-> get_file(result[b], h), over |-> FALSE]
    /\ UNCHANGED <<listing, pc, root, idx, files, total_size, opened, result>>

IsOverSizeLimit(b, x) ==
    /\ pc[b] = "done"
    /\ lastQuery' = [op |-> "is_over_size_limit", by |-> b, hash |-> 0,
                     max_size |-> x, found |-> <<>>,
                     over |-> is_over_size_limit(result[b], x)]
    /\ UNCHANGED <<listing, pc, root, idx, files, total_size, opened, result>>

-----------------------------------------------------------------------------
\* Specifications

Init ==
    /\ listing \in Listings
    /\ pc = [b \in Callers |-> "idle"]
    /\ root = [b \in Callers |-> NoRoot]
    /\ idx = [b \in Callers |-> 0]
    /\ files = [b \in Callers |-> <<>>]
    /\ total_size = [b \in Callers |-> 0]
    /\ opened = [b \in Callers |-> <<>>]
    /\ result = [b \in Callers |-> NoResult]
    /\ lastQuery = NoQuery

\* One caller builds an index and queries it.
Next ==
    \/ \E r \in Roots : Start(MainCaller, r)
    \/ ScanEntry(MainCaller)
    \/ Finish(MainCaller)
    \/ \E h \in QueryHashes : GetFile(MainCaller, h)
    \/ \E x \in QuerySizes : IsOverSizeLimit(MainCaller, x)

Spec == Init /\ [][Next]_vars

\* A started build runs to completion: the iterator chain is driven by collect.
FairSpec == Spec /\ WF_vars(ScanEntry(MainCaller)) /\ WF_vars(Finish(MainCaller))

\* Several callers build concurrently over the same filesystem.
NextConc ==
    \/ \E b \in Callers, r \in Roots : Start(b, r)
    \/ \E b \in Callers : ScanEntry(b)
    \/ \E b \in Callers : Finish(b)

SpecConc == Init /\ [][NextConc]_vars

TypeOK ==
    /\ listing \in Listings
    /\ pc \in [Callers -> {"idle", "scanning", "done", "failed"}]
    /\ \A b \in Callers : idx[b] \in 0..NumEntries

-----------------------------------------------------------------------------
\* Properties

Started == {b \in Callers : pc[b] # "idle"}
Built == {b \in Callers : result[b].tag = "Ok"}

\* The size on disk of the file a record of the index stands for.
SizeOnDisk(f) == Len(listing[f.path.name].content)

RECURSIVE SumSizes(_)
SumSizes(fs) == IF fs = <<>> THEN 0 ELSE SizeOnDisk(Head(fs)) + SumSizes(Tail(fs))

RecordOf(item) == [path |-> item.path, sha256sum |-> sha256_digest(item.e.content)]

\* A file that opens, reports its size and reads to the end.
Readable(item) == item.e.kind = "file" /\ item.e.fault = "none"

\* The records of the readable items of an enumeration, in enumeration order.
ReadableRecords(r) ==
    LET s == SelectSeq(Enumerate(r), Readable)
    IN [i \in 1..Len(s) |-> RecordOf(s[i])]

Range(s) == {s[i] : i \in 1..Len(s)}

\* C1: for every Directory returned by try_from, total_size is the sum of the
\* sizes of the files that appear in files; a file whose hashing failed
\* contributes nothing.
C1_TotalSizeIsSumOfIndexed ==
    \A b \in Built : result[b].total_size = SumSizes(result[b].files)

\* C2: try_from returns Err only for a root that has no unicode text or gives
\* an invalid pattern; with a good root no per-file failure makes it fail, and
\* the build that ran through the enumeration returned Ok.
C2_ErrOnlyOnBadRoot ==
    \A b \in Started :
        /\ (result[b].tag = "Err") = (root[b].text # "ok")
        /\ (pc[b] = "failed") = (root[b].text # "ok")
        /\ (pc[b] = "done") = (result[b].tag = "Ok")

C2_Witness ==
    /\ result[MainCaller].tag = "Ok"
    /\ root[MainCaller].dir = "top"
    /\ Len(listing) = 2
    /\ listing[1].fault = "open"
    /\ listing[2].fault = "read"

\* C3: get_file(h) returns the first record in index order whose sha256sum is
\* h and whose path is not timestamp-suffixed, and nothing iff there is none.
C3_GetFileFirstNonExcluded ==
    lastQuery.op = "get_file" =>
        LET fs == result[lastQuery.by].files
            M == {i \in 1..Len(fs) :
                    /\ fs[i].sha256sum = lastQuery.hash
                    /\ ~TIMESTAMP_EXTENSION_REGEX_is_match(fs[i].path)}
        IN IF M = {} THEN lastQuery.found = <<>>
           ELSE lastQuery.found = <<fs[CHOOSE i \in M : \A j \in M : i <= j]>>

C3_Witness ==
    /\ lastQuery.op = "get_file"
    /\ Len(result[lastQuery.by].files) = 2
    /\ result[lastQuery.by].files[1].sha256sum = lastQuery.hash
    /\ TIMESTAMP_EXTENSION_REGEX_is_match(result[lastQuery.by].files[1].path)
    /\ lastQuery.found = <<result[lastQuery.by].files[2]>>

\* C4: is_over_size_limit(x) is true iff x < total_size.
C4_OverLimitIffLess ==
    lastQuery.op = "is_over_size_limit" =>
        lastQuery.over = (lastQuery.max_size < result[lastQuery.by].total_size)

C4_Witness ==
    /\ lastQuery.op = "is_over_size_limit"
    /\ result[lastQuery.by].total_size > 0
    /\ lastQuery.max_size = result[lastQuery.by].total_size
    /\ lastQuery.over = FALSE

\* No file of the enumeration fails after it was opened.
OnlyOpenFailures(r) ==
    \A item \in Range(Enumerate(r)) : item.e.fault \in {"none", "open"}

\* C5: when every file of the directory either cannot be opened or is
\* readable, the build succeeds with a record for exactly the readable files
\* and total_size is the sum of their sizes.
C5_OpenFailuresSkipped ==
    \A b \in Callers :
        (pc[b] \in {"done", "failed"} /\ root[b].text = "ok"
            /\ OnlyOpenFailures(root[b])) =>
            /\ result[b].tag = "Ok"
            /\ result[b].files = ReadableRecords(root[b])
            /\ result[b].total_size = SumSizes(ReadableRecords(root[b]))

C5_Witness ==
    /\ result[MainCaller].tag = "Ok"
    /\ root[MainCaller].dir = "top"
    /\ Len(listing) = 2
    /\ listing[1].kind = "file" /\ listing[1].fault = "open"
    /\ Len(listing[1].content) = 1
    /\ listing[2].kind = "file" /\ listing[2].fault = "none"
    /\ Len(listing[2].content) = 1
    /\ result[MainCaller].total_size = 1

\* C6: a built index has no record for a directory and exactly one record for
\* each enumerated file that was opened and hashed successfully, in the order
\* of the enumeration.  (A file whose metadata call fails is never hashed.)
C6_IndexIsOrderedSubsequence ==
    \A b \in Built :
        /\ result[b].files = ReadableRecords(root[b])
        /\ \A f \in Range(result[b].files) : listing[f.path.name].kind = "file"

C6_Witness ==
    /\ result[MainCaller].tag = "Ok"
    /\ Len(result[MainCaller].files) = 2
    /\ result[MainCaller].files[1].path.name = 1
    /\ result[MainCaller].files[2].path.name = 2

\* C7: for every readable file without timestamp suffix, get_file of the
\* digest of its content on the built index returns a record with that digest,
\* and the record of that very file when no other file has the same content.
C7_BuildLookupRoundTrip ==
    \A b \in Built :
        \A item \in Range(Enumerate(root[b])) :
            (Readable(item) /\ ~TIMESTAMP_EXTENSION_REGEX_is_match(item.path)) =>
                LET h == sha256_digest(item.e.content)
                    r == get_file(result[b], h)
                    alone == \A o \in Range(Enumerate(root[b])) :
                                (o.e.kind = "file" /\ o.e.content = item.e.content)
                                    => o = item
                IN /\ r # <<>>
                   /\ r[1].sha256sum = h
                   /\ alone => r[1].path = item.path

C7_Witness ==
    /\ result[MainCaller].tag = "Ok"
    /\ Len(result[MainCaller].files) = 2
    /\ result[MainCaller].files[1].sha256sum # result[MainCaller].files[2].sha256sum
    /\ ~TIMESTAMP_EXTENSION_REGEX_is_match(result[MainCaller].files[1].path)
    /\ ~TIMESTAMP_EXTENSION_REGEX_is_match(result[MainCaller].files[2].path)

\* C8: once try_from has returned a Directory, no get_file or
\* is_over_size_limit call changes its files or its total_size.
C8_QueriesLeaveIndexUnchanged ==
    [][\A b \in Callers : result[b].tag = "Ok" => result'[b] = result[b]]_vars

C8_Witness ==
    /\ lastQuery.op = "get_file"
    /\ lastQuery.found # <<>>
    /\ lastQuery.found[1] \in Range(result[lastQuery.by].files)

\* What try_from computes for a root when nothing else runs.
RECURSIVE RunChain(_, _)
RunChain(acc, items) ==
    IF items = <<>> THEN acc ELSE RunChain(ProcessItem(acc, Head(items)), Tail(items))

BuildAlone(r) ==
    LET acc == RunChain([opened |-> <<>>, total_size |-> 0, files |-> <<>>],
                        Enumerate(r))
    IN OkResult(acc.files, acc.total_size)

\* C9: concurrent builds do not interfere: the filesystem is never modified
\* and each build returns the Directory it returns when run alone.
C9_ConcurrentBuildsIndependent ==
    /\ [](\A b \in Built : result[b] = BuildAlone(root[b]))
    /\ [][listing' = listing]_vars

C9_Witness ==
    /\ result["b1"].tag = "Ok" /\ result["b1"].total_size > 0
    /\ pc["b2"] = "scanning" /\ idx["b2"] = 1 /\ total_size["b2"] > 0

NoDuplicates(s) == \A i, j \in 1..Len(s) : s[i] = s[j] => i = j

\* C10: a started build ends in exactly one of two outcomes: Err before any
\* file is opened and without an index, or Ok after each enumerated item went
\* through the chain once; no item is retried and the outcome is final.
C10_BuildTerminates ==
    /\ \A b \in {MainCaller} : (pc[b] = "scanning") ~> (pc[b] = "done")
    /\ [](\A b \in Callers : pc[b] = "failed" =>
            /\ opened[b] = <<>> /\ idx[b] = 0
            /\ result[b] = ErrResult)
    /\ [](\A b \in Callers : pc[b] = "done" =>
            /\ idx[b] = Len(Enumerate(root[b]))
            /\ NoDuplicates(opened[b])
            /\ result[b] = OkResult(files[b], total_size[b]))
    /\ [][\A b \in Callers :
            /\ idx'[b] \in {idx[b], idx[b] + 1}
            /\ pc[b] \in {"done", "failed"} => pc'[b] = pc[b]]_vars

C10_Witness ==
    /\ pc[MainCaller] = "done"
    /\ idx[MainCaller] = 2
    /\ Len(opened[MainCaller]) = 2

=============================================================================
